---- MODULE Spec2Model ----
(***************************************************************************)
(* A model of zeroconf-example.py: get_local_ip, register_service, the     *)
(* MyListener callbacks, discover_services and the test_mdns script with   *)
(* its discovery worker thread.                                            *)
(*                                                                         *)
(* Strings that the code converts (dotted IPv4 text) are sequences of      *)
(* one-character strings; packed addresses (Python bytes) are sequences of *)
(* byte values.  The zeroconf library and the OS are the environment: each *)
(* call into them is a nondeterministic choice among its outcomes.         *)
(***************************************************************************)
EXTENDS Integers, Sequences, FiniteSets, TLC

VARIABLES
    mpc,                \* position of the main thread
    caller,             \* who called register_service: "test_mdns" or "direct"
    args,               \* register_service's parameters
    ip_address,         \* register_service's local ip_address (after line 37)
    gl,                 \* the last get_local_ip call: environment outcomes and result
    service_ip,         \* test_mdns's service_ip
    server,             \* register_service's server string
    regZc,              \* the Zeroconf instance of register_service
    registered,         \* whether that instance advertises the service
    info,               \* the ServiceInfo built by register_service
    ret,                \* what register_service returned to its caller
    exc,                \* the exception that left the main thread's function
    wpc,                \* position of the discovery worker thread
    discZc,             \* the Zeroconf instance of discover_services
    browserActive,      \* the ServiceBrowser delivers callbacks
    slept,              \* seconds of time.sleep(duration) elapsed
    services,           \* the dict written by MyListener
    lastCb,             \* the last listener callback delivered, with the library's answer
    discovery_results,  \* test_mdns's discovery_results dict
    printed             \* the listing printed by test_mdns

vars == <<mpc, caller, args, ip_address, gl, service_ip, server, regZc, registered,
          info, ret, exc, wpc, discZc, browserActive, slept, services, lastCb,
          discovery_results, printed>>

mainVars == <<mpc, caller, args, ip_address, gl, service_ip, server, regZc,
              registered, info, ret, exc>>
workerVars == <<wpc, discZc, browserActive, slept>>

-----------------------------------------------------------------------------
(* Bounds of the model *)

\* the longest address list the library hands to add_service
MaxAddrs == 1

-----------------------------------------------------------------------------
(* Text and packed addresses *)

Digits == <<"0", "1", "2", "3", "4", "5", "6", "7", "8", "9">>

DigitChar(d) == Digits[d + 1]

DigitVal(c) == CHOOSE d \in 0..9 : Digits[d + 1] = c

IsDigit(c) == \E d \in 0..9 : Digits[d + 1] = c

\* str(n) for a byte value
Decimal(n) ==
    IF n < 10 THEN <<DigitChar(n)>>
    ELSE IF n < 100 THEN <<DigitChar(n \div 10), DigitChar(n % 10)>>
    ELSE <<DigitChar(n \div 100), DigitChar((n \div 10) % 10), DigitChar(n % 10)>>

\* socket.inet_ntoa: four packed bytes to dotted-quad text
inet_ntoa(addr) ==
    Decimal(addr[1]) \o <<".">> \o Decimal(addr[2]) \o <<".">>
        \o Decimal(addr[3]) \o <<".">> \o Decimal(addr[4])

RECURSIVE SplitDots(_, _, _)
SplitDots(s, cur, acc) ==
    IF s = <<>> THEN Append(acc, cur)
    ELSE IF Head(s) = "." THEN SplitDots(Tail(s), <<>>, Append(acc, cur))
    ELSE SplitDots(Tail(s), Append(cur, Head(s)), acc)

RECURSIVE NumVal(_, _)
NumVal(p, v) == IF p = <<>> THEN v ELSE NumVal(Tail(p), v * 10 + DigitVal(Head(p)))

IsNumber(p) == p # <<>> /\ Len(p) <= 8 /\ \A i \in DOMAIN p : IsDigit(p[i])

RECURSIVE Pow256(_)
Pow256(k) == IF k = 0 THEN 1 ELSE 256 * Pow256(k - 1)

\* the last number of an n-part address spread big-endian over the 5-n low bytes
RECURSIVE BigEndian(_, _)
BigEndian(v, k) ==
    IF k = 0 THEN <<>> ELSE <<v \div Pow256(k - 1)>> \o BigEndian(v % Pow256(k - 1), k - 1)

\* socket.inet_aton: text to four packed bytes, or OSError.  The C routine takes
\* one to four decimal parts (a, a.b, a.b.c, a.b.c.d), the last filling the
\* remaining bytes; decimal parts only are modelled.
inet_aton(s) ==
    LET parts == SplitDots(s, <<>>, <<>>)
        n     == Len(parts)
        bad   == [ok |-> FALSE, bytes |-> <<>>]
    IN  IF n > 4 \/ \E i \in 1..n : ~IsNumber(parts[i]) THEN bad
        ELSE LET v == [i \in 1..n |-> NumVal(parts[i], 0)]
             IN  IF \E i \in 1..(n - 1) : v[i] > 255 THEN bad
                 ELSE IF n > 1 /\ v[n] >= Pow256(5 - n) THEN bad
                 ELSE [ok |-> TRUE,
                       bytes |-> [i \in 1..(n - 1) |-> v[i]] \o BigEndian(v[n], 5 - n)]

Loopback == <<"1", "2", "7", ".", "0", ".", "0", ".", "1">>

\* addresses the OS may report from getsockname
OsAddrs == { inet_ntoa(<<10, 0, 0, 5>>), inet_ntoa(<<100, 64, 200, 17>>) }

-----------------------------------------------------------------------------
(* get_local_ip *)

\* the step of get_local_ip at which the OS fails, if any: creating the socket,
\* connect, getsockname; a later step is not run once an earlier one has failed
FailSteps == {"none", "socket", "connect", "getsockname"}

\* get_local_ip, given the step that fails and the address getsockname would
\* report.  The socket is created by the with statement, outside the try block,
\* and the with statement closes it on every way out of its body.
get_local_ip(fails, osAddr) ==
    IF fails = "socket"
    THEN [raised |-> TRUE, ip |-> <<>>, sock |-> "none"]
    ELSE IF fails \in {"connect", "getsockname"}
    THEN [raised |-> FALSE, ip |-> Loopback, sock |-> "closed"]
    ELSE [raised |-> FALSE, ip |-> osAddr, sock |-> "closed"]

NoCall == [called |-> FALSE, fails |-> "none", osAddr |-> <<>>,
           res |-> [raised |-> FALSE, ip |-> <<>>, sock |-> "none"]]

\* the calls of get_local_ip the environment can produce
GlCalls ==
    { [called |-> TRUE, fails |-> "none", osAddr |-> a,
       res |-> get_local_ip("none", a)] : a \in OsAddrs }
    \cup
    { [called |-> TRUE, fails |-> f, osAddr |-> <<>>,
       res |-> get_local_ip(f, <<>>)] : f \in FailSteps \ {"none"} }

-----------------------------------------------------------------------------
(* register_service *)

NoIp == [none |-> TRUE, s |-> <<>>]

NoArgs == [service_name |-> "", service_type |-> "", port |-> 0, ip_address |-> NoIp]

NoInfo == [built |-> FALSE, type |-> "", name |-> <<>>, addresses |-> <<>>,
           port |-> 0, server |-> <<>>]

\* service types: the one test_mdns uses and one the library's ServiceInfo rejects
ServiceTypes == {"_http._tcp.local.", "http"}

\* the library's check of a service type in ServiceInfo's constructor
ValidType(t) == t = "_http._tcp.local."

Hostnames == {"hostA"}

\* where register_service's return statement leads
AfterReturn == IF caller = "test_mdns" THEN "m_check" ELSE "r_done"

\* lines 36-37: ip_address defaults to get_local_ip()
register_service_ip ==
    /\ mpc = "r_entry"
    /\ IF args.ip_address.none
       THEN \E c \in GlCalls :
               /\ gl' = c
               /\ IF c.res.raised
                  THEN mpc' = "raised" /\ exc' = "socket" /\ UNCHANGED ip_address
                  ELSE mpc' = "r_hostname" /\ ip_address' = c.res.ip /\ UNCHANGED exc
       ELSE /\ ip_address' = args.ip_address.s
            /\ mpc' = "r_hostname"
            /\ UNCHANGED <<gl, exc>>
    /\ UNCHANGED <<caller, args, service_ip, server, regZc, registered, info, ret>>
    /\ UNCHANGED <<workerVars, services, lastCb, discovery_results, printed>>

\* lines 40-41: hostname = socket.gethostname(); server = f"{hostname}.local."
register_service_hostname ==
    /\ mpc = "r_hostname"
    /\ \/ \E h \in Hostnames :
            /\ server' = <<h>> \o <<".local.">>
            /\ mpc' = "r_zc"
            /\ UNCHANGED exc
       \/ /\ mpc' = "raised"
          /\ exc' = "gethostname"
          /\ UNCHANGED server
    /\ UNCHANGED <<caller, args, ip_address, gl, service_ip, regZc, registered, info, ret>>
    /\ UNCHANGED <<workerVars, services, lastCb, discovery_results, printed>>

\* line 44: zeroconf_instance = zeroconf.Zeroconf()
register_service_zeroconf ==
    /\ mpc = "r_zc"
    /\ \/ /\ regZc' = "open"
          /\ mpc' = "r_info"
          /\ UNCHANGED exc
       \/ /\ mpc' = "raised"
          /\ exc' = "Zeroconf"
          /\ UNCHANGED regZc
    /\ UNCHANGED <<caller, args, ip_address, gl, service_ip, server, registered, info, ret>>
    /\ UNCHANGED <<workerVars, services, lastCb, discovery_results, printed>>

\* lines 47-54: info = zeroconf.ServiceInfo(..., addresses=[inet_aton(ip_address)], ...)
\* Neither call is inside a try block: an exception leaves the function with
\* the instance of line 44 still open.
register_service_info ==
    /\ mpc = "r_info"
    /\ LET packed == inet_aton(ip_address)
       IN  IF ~packed.ok
           THEN mpc' = "raised" /\ exc' = "inet_aton" /\ UNCHANGED info
           ELSE IF ~ValidType(args.service_type)
           THEN mpc' = "raised" /\ exc' = "ServiceInfo" /\ UNCHANGED info
           ELSE /\ info' = [built |-> TRUE,
                            type |-> args.service_type,
                            name |-> <<args.service_name, ".", args.service_type>>,
                            addresses |-> <<packed.bytes>>,
                            port |-> args.port,
                            server |-> server]
                /\ mpc' = "r_register"
                /\ UNCHANGED exc
    /\ UNCHANGED <<caller, args, ip_address, gl, service_ip, server, regZc, registered, ret>>
    /\ UNCHANGED <<workerVars, services, lastCb, discovery_results, printed>>

\* register_service's last step without the close() of line 62
register_service_register_leak ==
    /\ mpc = "r_register"
    /\ \/ /\ registered' = TRUE
          /\ ret' = "pair"
       \/ /\ ret' = "null_pair"
          /\ UNCHANGED registered
    /\ mpc' = AfterReturn
    /\ UNCHANGED <<caller, args, ip_address, gl, service_ip, server, regZc, info, exc>>
    /\ UNCHANGED <<workerVars, services, lastCb, discovery_results, printed>>

\* lines 57-65: try register_service(info); except: close, return None, None
register_service_register ==
    /\ mpc = "r_register"
    /\ \/ /\ registered' = TRUE
          /\ ret' = "pair"
          /\ UNCHANGED regZc
       \/ /\ regZc' = "closed"
          /\ ret' = "null_pair"
          /\ UNCHANGED registered
    /\ mpc' = AfterReturn
    /\ UNCHANGED <<caller, args, ip_address, gl, service_ip, server, info, exc>>
    /\ UNCHANGED <<workerVars, services, lastCb, discovery_results, printed>>

-----------------------------------------------------------------------------
(* MyListener *)

\* packed addresses the library may report for a discovered service
PackedAddrs == { <<10, 0, 0, 5>>, <<100, 64, 200, 17>> }

Ports == {80, 8080}

\* names the browser may report
Names == {"test-service", "printer"}

AddrLists == UNION { [1..k -> PackedAddrs] : k \in 0..MaxAddrs }

NoAnswer == [found |-> FALSE, addresses |-> <<>>, port |-> 0]

\* what get_service_info may return: None, or an info with addresses and a port
Answers ==
    {NoAnswer} \cup { [found |-> TRUE, addresses |-> a, port |-> p] :
                        a \in AddrLists, p \in Ports }

EmptyDict == [n \in {} |-> NoAnswer]

\* d[name] = value on a Python dict
DictSet(d, name, value) ==
    [n \in DOMAIN d \cup {name} |-> IF n = name THEN value ELSE d[n]]

\* add_service recording an entry without the addresses of the info
add_service_no_addresses(d, name, answer) ==
    IF answer.found
    THEN DictSet(d, name, [addresses |-> <<>>, port |-> answer.port])
    ELSE d

\* add_service without the test of line 74
add_service_unchecked(d, name, answer) ==
    DictSet(d, name,
            [addresses |-> [i \in 1..Len(answer.addresses) |->
                               inet_ntoa(answer.addresses[i])],
             port |-> answer.port])

\* lines 72-79: the services dict after add_service(name), the library answering
\* get_service_info with answer
add_service(d, name, answer) ==
    IF answer.found
    THEN DictSet(d, name,
                 [addresses |-> [i \in 1..Len(answer.addresses) |->
                                    inet_ntoa(answer.addresses[i])],
                  port |-> answer.port])
    ELSE d

\* remove_service deleting the entry
remove_service_deletes(d, name) == [n \in DOMAIN d \ {name} |-> d[n]]

\* lines 82-84
remove_service(d, name) == d

\* lines 86-88
update_service(d, name) == d

NoCb == [kind |-> "none", name |-> "", answer |-> NoAnswer]

\* the browser delivers callbacks from its creation until close() has returned
Delivering == browserActive

AddServiceCb ==
    /\ Delivering
    /\ \E n \in Names, a \in Answers :
          /\ services' = add_service(services, n, a)
          /\ lastCb' = [kind |-> "add", name |-> n, answer |-> a]
    /\ UNCHANGED <<mainVars, workerVars, discovery_results, printed>>

RemoveServiceCb ==
    /\ Delivering
    /\ \E n \in Names :
          /\ services' = remove_service(services, n)
          /\ lastCb' = [kind |-> "remove", name |-> n, answer |-> NoAnswer]
    /\ UNCHANGED <<mainVars, workerVars, discovery_results, printed>>

UpdateServiceCb ==
    /\ Delivering
    /\ \E n \in Names :
          /\ services' = update_service(services, n)
          /\ lastCb' = [kind |-> "update", name |-> n, answer |-> NoAnswer]
    /\ UNCHANGED <<mainVars, workerVars, discovery_results, printed>>

-----------------------------------------------------------------------------
(* discover_services, run by discovery_thread_func in the worker thread *)

\* line 138: discovery_duration
discovery_duration == 2

\* lines 102-106: Zeroconf(), services = {}, MyListener(services)
discover_services_zeroconf ==
    /\ wpc = "w_zc"
    /\ \/ /\ discZc' = "open"
          /\ services' = EmptyDict
          /\ wpc' = "w_browser"
       \/ /\ wpc' = "w_raised"
          /\ UNCHANGED <<discZc, services>>
    /\ UNCHANGED <<mainVars, browserActive, slept, lastCb, discovery_results, printed>>

\* lines 109-110: ServiceBrowser(zeroconf_instance, service_type, listener);
\* the call returns with the browser running, or never returns
discover_services_browser ==
    /\ wpc = "w_browser"
    /\ browserActive' = TRUE
    /\ slept' = 0
    /\ \/ wpc' = "w_sleep"
       \/ wpc' = "w_hung_browser"
    /\ UNCHANGED <<mainVars, discZc, services, lastCb, discovery_results, printed>>

\* line 111: time.sleep(duration), one second at a time
discover_services_sleep ==
    /\ wpc = "w_sleep"
    /\ slept < discovery_duration
    /\ slept' = slept + 1
    /\ wpc' = IF slept + 1 = discovery_duration THEN "w_close" ELSE "w_sleep"
    /\ UNCHANGED <<mainVars, discZc, browserActive, services, lastCb,
                   discovery_results, printed>>

\* discover_services without the close() of line 112
discover_services_close_skipped ==
    /\ wpc = "w_close"
    /\ wpc' = "w_update"
    /\ UNCHANGED <<discZc, browserActive>>
    /\ UNCHANGED <<mainVars, slept, services, lastCb, discovery_results, printed>>

\* line 112: zeroconf_instance.close(); it returns with the instance closed and
\* the browser stopped, or never returns
discover_services_close ==
    /\ wpc = "w_close"
    /\ \/ /\ discZc' = "closed"
          /\ browserActive' = FALSE
          /\ wpc' = "w_update"
       \/ /\ wpc' = "w_hung_close"
          /\ UNCHANGED <<discZc, browserActive>>
    /\ UNCHANGED <<mainVars, slept, services, lastCb, discovery_results, printed>>

\* d.update(other) on a Python dict
DictUpdate(d, other) ==
    [n \in DOMAIN d \cup DOMAIN other |-> IF n \in DOMAIN other THEN other[n] ELSE d[n]]

\* lines 113-115, 141-142: return services; discovery_results.update(discovered)
discovery_thread_update ==
    /\ wpc = "w_update"
    /\ discovery_results' = DictUpdate(discovery_results, services)
    /\ wpc' = "w_done"
    /\ UNCHANGED <<mainVars, discZc, browserActive, slept, services, lastCb, printed>>

-----------------------------------------------------------------------------
(* test_mdns *)

NotPrinted == [done |-> FALSE, listing |-> EmptyDict]

\* line 125: service_port
service_port == 8080

\* lines 123-126: service_ip = get_local_ip()
test_mdns_get_ip ==
    /\ mpc = "m_start"
    /\ \E c \in GlCalls :
          /\ gl' = c
          /\ IF c.res.raised
             THEN mpc' = "raised" /\ exc' = "socket" /\ UNCHANGED service_ip
             ELSE mpc' = "m_call" /\ service_ip' = c.res.ip /\ UNCHANGED exc
    /\ UNCHANGED <<caller, args, ip_address, server, regZc, registered, info, ret>>
    /\ UNCHANGED <<workerVars, services, lastCb, discovery_results, printed>>

\* lines 129-130: register_service(service_name, service_type, service_port,
\*                                 ip_address=service_ip)
test_mdns_call_register ==
    /\ mpc = "m_call"
    /\ args' = [service_name |-> "test-service",
                service_type |-> "_http._tcp.local.",
                port |-> service_port,
                ip_address |-> [none |-> FALSE, s |-> service_ip]]
    /\ caller' = "test_mdns"
    /\ mpc' = "r_entry"
    /\ UNCHANGED <<ip_address, gl, service_ip, server, regZc, registered, info, ret, exc>>
    /\ UNCHANGED <<workerVars, services, lastCb, discovery_results, printed>>

\* test_mdns going on whatever register_service returned
RegistrationFailed_ignored == FALSE

\* line 132: not zeroconf_instance or not info
RegistrationFailed == ret = "null_pair"

\* lines 132-145: return on failure; else discovery_results = {} and start the thread
test_mdns_check ==
    /\ mpc = "m_check"
    /\ IF RegistrationFailed
       THEN /\ mpc' = "m_done"
            /\ UNCHANGED <<wpc, discovery_results>>
       ELSE /\ discovery_results' = EmptyDict
            /\ wpc' = "w_zc"
            /\ mpc' = "m_join"
    /\ UNCHANGED <<caller, args, ip_address, gl, service_ip, server, regZc, registered,
                   info, ret, exc>>
    /\ UNCHANGED <<discZc, browserActive, slept, services, lastCb, printed>>

\* a join that does not wait for the thread
ThreadEnded_no_wait == wpc # "w_idle"

\* the worker thread has ended: by returning, or by an exception
ThreadEnded == wpc \in {"w_done", "w_raised"}

\* line 148: discovery_thread.join()
test_mdns_join ==
    /\ mpc = "m_join"
    /\ ThreadEnded
    /\ mpc' = "m_print"
    /\ UNCHANGED <<caller, args, ip_address, gl, service_ip, server, regZc, registered,
                   info, ret, exc>>
    /\ UNCHANGED <<workerVars, services, lastCb, discovery_results, printed>>

\* test_mdns with the unregistration of lines 151-158 run
test_mdns_print_unregister ==
    /\ mpc = "m_print"
    /\ registered' = FALSE
    /\ regZc' = "closed"
    /\ printed' = [done |-> TRUE, listing |-> discovery_results]
    /\ mpc' = "m_done"
    /\ UNCHANGED <<caller, args, ip_address, gl, service_ip, server, info, ret, exc>>
    /\ UNCHANGED <<workerVars, services, lastCb, discovery_results>>

\* lines 150-163: the unregistration is commented out; print the listing
test_mdns_print ==
    /\ mpc = "m_print"
    /\ printed' = [done |-> TRUE, listing |-> discovery_results]
    /\ mpc' = "m_done"
    /\ UNCHANGED <<caller, args, ip_address, gl, service_ip, server, regZc, registered,
                   info, ret, exc>>
    /\ UNCHANGED <<workerVars, services, lastCb, discovery_results>>

-----------------------------------------------------------------------------
(* Specifications *)

InitCommon ==
    /\ ip_address = <<>>
    /\ gl = NoCall
    /\ service_ip = <<>>
    /\ server = <<>>
    /\ regZc = "none"
    /\ registered = FALSE
    /\ info = NoInfo
    /\ ret = "none"
    /\ exc = "none"
    /\ wpc = "w_idle"
    /\ discZc = "none"
    /\ browserActive = FALSE
    /\ slept = 0
    /\ services = EmptyDict
    /\ lastCb = NoCb
    /\ discovery_results = EmptyDict
    /\ printed = NotPrinted

\* the script: python zeroconf-example.py runs test_mdns()
Init ==
    /\ mpc = "m_start"
    /\ caller = "test_mdns"
    /\ args = NoArgs
    /\ InitCommon

Register ==
    \/ register_service_ip
    \/ register_service_hostname
    \/ register_service_zeroconf
    \/ register_service_info
    \/ register_service_register

Main ==
    \/ test_mdns_get_ip
    \/ test_mdns_call_register
    \/ Register
    \/ test_mdns_check
    \/ test_mdns_join
    \/ test_mdns_print

Worker ==
    \/ discover_services_zeroconf
    \/ discover_services_browser
    \/ discover_services_sleep
    \/ discover_services_close
    \/ discovery_thread_update

Callbacks == AddServiceCb \/ RemoveServiceCb \/ UpdateServiceCb

Next == Main \/ Worker \/ Callbacks

Spec == Init /\ [][Next]_vars

\* both threads are scheduled as long as they can run; callbacks come when the
\* network sends them
FairSpec == Spec /\ WF_vars(Main) /\ WF_vars(Worker)

\* text a caller may pass as ip_address
IpTexts ==
    { Loopback,
      inet_ntoa(<<10, 0, 0, 5>>),
      <<"1", "0", ".", "5">>,
      <<"2", "5", "6", ".", "1", ".", "1", ".", "1">>,
      <<"l", "o", "c", "a", "l">>,
      <<>> }

\* register_service called on its own, with any arguments
InitRegister ==
    /\ mpc = "r_entry"
    /\ caller = "direct"
    /\ args \in { [service_name |-> n, service_type |-> t, port |-> p, ip_address |-> i] :
                    n \in Names, t \in ServiceTypes, p \in Ports,
                    i \in {NoIp} \cup { [none |-> FALSE, s |-> x] : x \in IpTexts } }
    /\ InitCommon

SpecRegister == InitRegister /\ [][Register]_vars

-----------------------------------------------------------------------------
(* Properties *)

Hung == wpc \in {"w_hung_browser", "w_hung_close"}

\* C1: register_service returns a non-null pair with the instance open when the
\* library's register_service succeeds, and (None, None) with the instance
\* closed when it raises.
C1_RegisterOutcome ==
    ret # "none" =>
        /\ registered => (ret = "pair" /\ regZc = "open" /\ info.built)
        /\ ~registered => (ret = "null_pair" /\ regZc = "closed")

C1_Witness == ret = "null_pair" /\ regZc = "closed" /\ mpc = "r_done"

\* the steps of register_service that C2 names
RegisterSteps == {"gethostname", "Zeroconf", "inet_aton", "ServiceInfo"}

\* C2: no exception of a step of register_service leaves the function, and
\* whenever it has failed no Zeroconf instance it created is left open.
C2_NoExceptionEscapes ==
    /\ exc \notin RegisterSteps
    /\ (mpc = "raised" \/ ret = "null_pair") => regZc # "open"

\* C3: get_local_ip never raises; it returns 127.0.0.1 when a step fails and
\* the address read back from the socket otherwise.
C3_GetLocalIpNeverRaises ==
    gl.called =>
        /\ ~gl.res.raised
        /\ gl.fails # "none" => gl.res.ip = Loopback
        /\ gl.fails = "none" => gl.res.ip = gl.osAddr

\* C4 as stated: every entry of the services dict has a non-empty address list.
C4_AddressesNeverEmpty ==
    \A n \in DOMAIN services : services[n].addresses # <<>>

\* C4, amended: an entry's address list is empty only if it was empty before
\* the step or the step is an add_service for that name to which the library
\* returned an info without addresses.
C4_EmptyOnlyFromEmptyInfo ==
    [][\A n \in DOMAIN services' :
          services'[n].addresses = <<>> =>
              \/ n \in DOMAIN services /\ services[n].addresses = <<>>
              \/ /\ lastCb'.kind = "add"
                 /\ lastCb'.name = n
                 /\ lastCb'.answer.found
                 /\ lastCb'.answer.addresses = <<>>]_vars

C4_Witness ==
    /\ lastCb.kind = "add"
    /\ lastCb.answer.found
    /\ lastCb.answer.addresses = <<>>
    /\ lastCb.name \in DOMAIN services
    /\ services[lastCb.name].addresses = <<>>

C6_DiscoveryReturns ==
    /\ [](wpc \in {"w_update", "w_done"} =>
            discZc = "closed" /\ slept = discovery_duration)
    /\ (wpc = "w_browser") ~> (wpc = "w_done" \/ Hung)
    /\ (wpc = "w_zc") ~> (mpc = "m_done" \/ Hung)
    /\ [](Hung => mpc = "m_join")

C6_Witness ==
    /\ mpc = "m_done"
    /\ wpc = "w_done"
    /\ discZc = "closed"
    /\ printed.done
    /\ printed.listing = EmptyDict

\* C7: when register_service returns the null pair (or raises), no discovery
\* thread, instance or browser ever exists and nothing is listed; the thread
\* runs only after register_service has returned a pair.
C7_FailureAborts ==
    /\ (ret = "null_pair" \/ mpc = "raised") =>
           /\ wpc = "w_idle"
           /\ discZc = "none"
           /\ ~browserActive
           /\ ~printed.done
    /\ wpc # "w_idle" => ret = "pair"

C7_Witness == mpc = "m_done" /\ ret = "null_pair" /\ wpc = "w_idle"

\* C8 as stated: the value recorded for a name never changes and is never removed.
C8_NeverUpdated ==
    [][\A n \in DOMAIN services :
          n \in DOMAIN services' /\ services'[n] = services[n]]_vars

\* C8, amended: remove_service and update_service leave the dict unchanged, keys
\* are never removed, and a recorded value changes only by an add_service for
\* that name to which the library returned an info.
C8_OnlyAddOverwrites ==
    [][/\ lastCb'.kind \in {"remove", "update"} => services' = services
       /\ \A n \in DOMAIN services :
             /\ n \in DOMAIN services'
             /\ services'[n] # services[n] =>
                    /\ lastCb'.kind = "add"
                    /\ lastCb'.name = n
                    /\ lastCb'.answer.found]_vars

C8_Witness ==
    /\ lastCb.kind = "remove"
    /\ lastCb.name \in DOMAIN services

\* C9: add_service leaves the dict unchanged when get_service_info returns
\* nothing; otherwise the dict then holds, for that name, the port and the
\* addresses of the returned info, and every other entry is unchanged.
C9_AddServiceRecords ==
    [][(lastCb'.kind = "add" /\ (lastCb' # lastCb \/ services' # services)) =>
          LET n == lastCb'.name
              a == lastCb'.answer
          IN  IF ~a.found
              THEN services' = services
              ELSE /\ DOMAIN services' = DOMAIN services \cup {n}
                   /\ services'[n].port = a.port
                   /\ Len(services'[n].addresses) = Len(a.addresses)
                   /\ \A i \in 1..Len(a.addresses) :
                         inet_aton(services'[n].addresses[i]) =
                             [ok |-> TRUE, bytes |-> a.addresses[i]]
                   /\ \A m \in DOMAIN services \ {n} :
                         services'[m] = services[m]]_vars

C9_Witness ==
    /\ lastCb.kind = "add"
    /\ lastCb.answer.found
    /\ lastCb.answer.addresses # <<>>
    /\ Cardinality(DOMAIN services) = 2

\* C10: once registration has succeeded the registration instance stays open
\* and registered to the end of test_mdns; it is closed only when the
\* library's register_service raised.
C10_AdvertisementStays ==
    /\ ret = "pair" => (regZc = "open" /\ registered)
    /\ regZc = "closed" => ret = "null_pair"
    /\ (mpc = "m_done" /\ printed.done) => (regZc = "open" /\ discZc # "open")

C10_Witness ==
    /\ mpc = "m_done"
    /\ printed.done
    /\ regZc = "open"
    /\ registered
    /\ discZc = "closed"

====
